---------------------------- MODULE Spec2Model ----------------------------
(***************************************************************************)
(* txwatch: the transaction monitoring engine of internal/etx/etx.go and   *)
(* the periodic driver and HTTP handlers of main.go.                       *)
(*                                                                         *)
(* The store is a table of Transaction rows keyed by txid.  One periodic   *)
(* driver goroutine runs CheckMonitoredTransactions; each sweep starts 10  *)
(* monitorWorker goroutines that receive *Transaction from tin.  The image *)
(* is built with Go 1.15 (Dockerfile), so the range variable t of the      *)
(* enqueue loop is ONE variable for the whole loop and every pointer sent  *)
(* on tin is &t: the workers and the enqueue loop share t without          *)
(* synchronisation.  The model interleaves them statement by statement.    *)
(***************************************************************************)
EXTENDS Integers, Sequences, FiniteSets, Bags, TLC

\* ------------------------------------------------------------------ bounds
NumIds == 2          \* distinct transaction hashes a caller may submit
MaxThreshold == 1    \* largest parseable CHECKS_THRESHOLD value tried
MaxSweeps == 2       \* sweeps the periodic driver runs under Spec
MaxBodyChecks == 1   \* largest "checks" a request body carries under HttpSpec

\* ------------------------------------------------------- program constants
Workers == 10        \* for w := 0; w < 10; w++  (etx.go:236)

Ids == 1..NumIds
\* CHECKS_THRESHOLD as strconv.Atoi sees it: an int, or an error.
Unparseable == -1
Thresholds == (0..MaxThreshold) \cup {Unparseable}

\* Clients: the chain names configured through ETH_ENDPOINTS.
Clients == {"eth"}

ErrExceeded == "exceeded checks threshold"
ErrFailure == "failure"
ErrQuery == "query error"
ErrReceipt == "receipt error"
ErrClientNotFound == "blockchain client not found"

\* The zero value of the Transaction struct (ID "" is written 0).
Transaction ==
  [id |-> 0, blockchain |-> "", monitoring |-> FALSE, pending |-> FALSE,
   checks |-> 0, success |-> FALSE, reviewed |-> FALSE, error |-> ""]

NoRow == Transaction

\* Bodies of POST /transaction: json.Unmarshal fills every tagged field the
\* caller sends, so a body may carry the engine's own fields as well.
RequestBodies ==
  { [Transaction EXCEPT !.blockchain = "eth"],
    [Transaction EXCEPT !.blockchain = "unknown"] }

\* Bodies of POST /transaction/{txid}/reviewed: "reviewed" as the caller
\* marking a transaction reviewed sends it.
ReviewedBodies == {TRUE}

\* Every body json.Unmarshal accepts for POST /transaction: each tagged field
\* of Transaction is the caller's to set (txid is drawn by the handler's
\* action).
AnyRequestBodies ==
  [id : {0}, blockchain : {"eth", "unknown"}, monitoring : BOOLEAN,
   pending : BOOLEAN, checks : 0..MaxBodyChecks, success : BOOLEAN,
   reviewed : BOOLEAN, error : {"", ErrFailure}]

\* GetBlockchainClient: TRUE when Clients[name] exists.
GetBlockchainClient(name) == name \in Clients

\* ChecksThreshold: the abandonment override applied to t before a write.
ChecksThreshold(tx, sc) ==
  IF sc = Unparseable THEN tx
  ELSE IF tx.checks > sc
       THEN [tx EXCEPT !.error = ErrExceeded, !.monitoring = FALSE,
                       !.pending = FALSE, !.success = FALSE]
       ELSE tx

\* The column map ut that Save hands to Updates.
UpdateMap(tx) ==
  [success |-> tx.success, pending |-> tx.pending, error |-> tx.error,
   monitoring |-> tx.monitoring, checks |-> tx.checks]

\* DB.Find(&Transaction{ID: id}).Updates(ut): the row keyed id, if any.
Updates(table, id, ut) ==
  IF id \in Ids /\ table[id] # NoRow
  THEN [table EXCEPT ![id] = [@ EXCEPT !.success = ut.success,
                                       !.pending = ut.pending,
                                       !.error = ut.error,
                                       !.monitoring = ut.monitoring,
                                       !.checks = ut.checks]]
  ELSE table

\* DB.Find(&txs, &Transaction{Monitoring: true, Reviewed: false}): gorm
\* builds the WHERE clause of a struct condition from its non-zero fields
\* only, so Reviewed: false adds no condition.
MonitoredTransactions(table) ==
  {table[i] : i \in {j \in Ids : table[j] # NoRow /\ table[j].monitoring}}

\* Every order in which the store may return the rows of S.
Orders(S) ==
  {s \in [1..Cardinality(S) -> S] : \A i, j \in 1..Cardinality(S) :
                                       i # j => s[i] # s[j]}

VARIABLES
  sweeps,     \* sweeps started so far (history)
  db,         \* the transactions table: Ids -> row, NoRow when absent
  threshold,  \* CHECKS_THRESHOLD of the process environment
  driver,     \* where the periodic driver (worker in main.go) stands
  gen,        \* parity of the number of sweeps started
  txs,        \* the snapshot of the running sweep
  next,       \* iterations of the enqueue loop done
  t,          \* the range variable of the enqueue loop, shared through &t
  tin,        \* pointers buffered in tin (each is &t)
  tinClosed,  \* close(tin) done
  tout,       \* completions buffered in tout
  collected,  \* completions the coordinator has received
  idle,       \* monitorWorkers of the running sweep blocked on range tin
  busy,       \* bag of monitorWorkers inside the loop body
  passes      \* history: CheckSuccess calls per txid in the running sweep

vars == <<sweeps, db, threshold, driver, gen, txs, next, t, tin, tinClosed, tout,
          collected, idle, busy, passes>>

sweepVars == <<gen, txs, next, t, tin, tinClosed, tout, collected, idle,
               busy, passes>>

Init ==
  /\ sweeps = 0
  /\ db = [i \in Ids |-> NoRow]
  /\ threshold \in Thresholds
  /\ driver = "run"
  /\ gen = 0
  /\ txs = <<>>
  /\ next = 0
  /\ t = Transaction
  /\ tin = 0
  /\ tinClosed = FALSE
  /\ tout = 0
  /\ collected = 0
  /\ idle = 0
  /\ busy = EmptyBag
  /\ passes = [i \in Ids |-> 0]

\* ---------------------------------------------------------- HTTP surface
\* Transaction.New: Monitoring = true, DB.Create(t); a duplicate key fails.
New(table, id, body) ==
  IF table[id] = NoRow
  THEN [table EXCEPT ![id] = [body EXCEPT !.id = id, !.monitoring = TRUE]]
  ELSE table

\* Hashes are interchangeable: the k-th hash ever submitted is called k.
HandleNewTransaction ==
  /\ \E id \in Ids, body \in RequestBodies :
       /\ db[id] = NoRow
       /\ \A j \in Ids : j < id => db[j] # NoRow
       /\ db' = New(db, id, body)
  /\ UNCHANGED <<sweeps, threshold, driver, sweepVars>>

\* A SetReviewed that flips the stored flag instead of setting it.
SetReviewedToggle(table, id, reviewed) ==
  IF table[id] # NoRow
  THEN [table EXCEPT ![id].reviewed = ~@]
  ELSE table

\* Transaction.SetReviewed: Update("reviewed", t.Reviewed) on the row id.
SetReviewed(table, id, reviewed) ==
  IF table[id] # NoRow
  THEN [table EXCEPT ![id].reviewed = reviewed]
  ELSE table

HandleSetReviewed ==
  /\ \E id \in Ids, reviewed \in ReviewedBodies :
       /\ db[id] # NoRow
       /\ db[id].reviewed # reviewed
       /\ db' = SetReviewed(db, id, reviewed)
  /\ UNCHANGED <<sweeps, threshold, driver, sweepVars>>

\* ------------------------------------------------------ periodic driver
\* time.Sleep(ct) elapsed: the loop of worker() comes round again.
SleepDone ==
  /\ driver = "sleep"
  /\ driver' = "run"
  /\ UNCHANGED <<sweeps, db, threshold, sweepVars>>

\* CheckMonitoredTransactions, lines 230-238: snapshot, channels, workers.
\* The driver is in worker()'s loop, about to call the sweep.
\* A driver that calls CheckMonitoredTransactions again without waiting for
\* the call before it to return.
DriverNotWaiting == driver \in {"run", "collect"}

DriverReady == driver = "run"

Begin ==
  /\ DriverReady
  /\ txs' \in Orders(MonitoredTransactions(db))
  /\ driver' = "enqueue"
  /\ gen' = 1 - gen
  /\ next' = 0
  /\ t' = Transaction
  /\ tin' = 0
  /\ tinClosed' = FALSE
  /\ tout' = 0
  /\ collected' = 0
  /\ idle' = Workers
  /\ passes' = [i \in Ids |-> 0]
  /\ UNCHANGED <<db, threshold, busy>>

StartSweep ==
  /\ sweeps < MaxSweeps
  /\ sweeps' = sweeps + 1
  /\ Begin

\* One iteration of `for _, t := range txs { tin <- &t }`.
Enqueue ==
  /\ driver = "enqueue"
  /\ next < Len(txs)
  /\ t' = txs[next + 1]
  /\ tin' = tin + 1
  /\ next' = next + 1
  /\ UNCHANGED <<sweeps, db, threshold, driver, gen, txs, tinClosed, tout, collected,
                 idle, busy, passes>>

\* close(tin)
CloseTin ==
  /\ driver = "enqueue"
  /\ next = Len(txs)
  /\ tinClosed' = TRUE
  /\ driver' = "collect"
  /\ UNCHANGED <<sweeps, db, threshold, gen, txs, next, t, tin, tout, collected,
                 idle, busy, passes>>

\* The loop condition of `for i := 0; i < len(txs); i++ { <-tout }`.
\* A collect loop that reads one completion fewer than it dispatched.
CollectOneShort == collected + 1 < Len(txs)

CollectMore == collected < Len(txs)

Collect ==
  /\ driver = "collect"
  /\ CollectMore
  /\ tout > 0
  /\ tout' = tout - 1
  /\ collected' = collected + 1
  /\ UNCHANGED <<sweeps, db, threshold, driver, gen, txs, next, t, tin, tinClosed,
                 idle, busy, passes>>

\* return nil: back in worker(), which sleeps.  The locals of the call (txs,
\* t, the channels) are gone with it.
SweepReturn ==
  /\ driver = "collect"
  /\ ~CollectMore
  /\ driver' = "sleep"
  /\ idle' = 0
  /\ txs' = <<>>
  /\ next' = 0
  /\ t' = Transaction
  /\ tin' = 0
  /\ tinClosed' = FALSE
  /\ tout' = 0
  /\ collected' = 0
  /\ passes' = [i \in Ids |-> 0]
  /\ UNCHANGED <<sweeps, db, threshold, gen, busy>>

\* ------------------------------------------------------- monitorWorker
\* A monitorWorker waiting for a call to come back: pc names the call
\* (TransactionByHash, TransactionReceipt, or the Updates of Save), sweep is
\* the parity of the sweep whose channels it holds, hash the txHash computed
\* at line 110, ut the column map Save built and id the key it sent with it.
\* inc, start and res are history: the value t.Checks++ produced in this
\* pass, the stored checks of row hash at that moment, and what the chain
\* answered in the pass.
Received(g, tx) ==
  [pc |-> "query", sweep |-> g, hash |-> tx.id, inc |-> tx.checks + 1,
   start |-> db[tx.id].checks, res |-> "none", id |-> 0,
   ut |-> UpdateMap(Transaction)]

Replace(bag, w, v) == (bag (-) SetToBag({w})) (+) SetToBag({v})

At(pc) == {w \in BagToSet(busy) : w.pc = pc}

\* Save up to the store call: ChecksThreshold, then the column map.
Saving(w, tx, sc, res) ==
  [w EXCEPT !.pc = "update", !.res = res, !.id = tx.id,
            !.ut = UpdateMap(ChecksThreshold(tx, sc))]

\* A monitorWorker that goes back to range tin without sending on tout when
\* CheckSuccess returned an error.
WorkerRecvNoSignal ==
  /\ idle > 0
  /\ tin > 0
  /\ tin' = tin - 1
  /\ t' = [t EXCEPT !.checks = @ + 1]
  /\ passes' = [passes EXCEPT ![t.id] = @ + 1]
  /\ \/ /\ GetBlockchainClient(t.blockchain)
        /\ busy' = busy (+) SetToBag({Received(gen, t)})
        /\ idle' = idle - 1
        /\ UNCHANGED tout
     \/ /\ ~GetBlockchainClient(t.blockchain)
        /\ UNCHANGED <<tout, busy, idle>>
  /\ UNCHANGED <<sweeps, db, threshold, driver, gen, txs, next, collected, tinClosed>>

\* for t := range tin, then CheckSuccess lines 109-115: t.Checks++, txHash,
\* the client lookup.  With no client CheckSuccess returns cerr, the worker
\* sends t on tout and is back at range tin.
WorkerRecv ==
  /\ idle > 0
  /\ tin > 0
  /\ tin' = tin - 1
  /\ t' = [t EXCEPT !.checks = @ + 1]
  /\ passes' = [passes EXCEPT ![t.id] = @ + 1]
  /\ \/ /\ GetBlockchainClient(t.blockchain)
        /\ busy' = busy (+) SetToBag({Received(gen, t)})
        /\ idle' = idle - 1
        /\ UNCHANGED tout
     \/ /\ ~GetBlockchainClient(t.blockchain)
        /\ tout' = tout + 1
        /\ UNCHANGED <<busy, idle>>
  /\ UNCHANGED <<sweeps, db, threshold, driver, gen, txs, next, collected, tinClosed>>

\* c.TransactionByHash(ctx, txHash) answers: lines 115-129, and on the error
\* and pending paths Save up to its store call.
WorkerQuery ==
  /\ \E w \in At("query") :
       \/ LET tx == [t EXCEPT !.pending = FALSE, !.monitoring = FALSE,
                              !.error = ErrQuery] IN
            /\ t' = ChecksThreshold(tx, threshold)
            /\ busy' = Replace(busy, w, Saving(w, tx, threshold, "qerr"))
       \/ LET tx == [t EXCEPT !.pending = TRUE, !.monitoring = TRUE] IN
            /\ t' = ChecksThreshold(tx, threshold)
            /\ busy' = Replace(busy, w, Saving(w, tx, threshold, "pending"))
       \/ /\ t' = [t EXCEPT !.pending = FALSE, !.monitoring = FALSE]
          /\ busy' = Replace(busy, w, [w EXCEPT !.pc = "receipt"])
  /\ UNCHANGED <<sweeps, db, threshold, driver, gen, txs, next, tin, tinClosed, tout,
                 collected, idle, passes>>

\* c.TransactionReceipt(ctx, tx.Hash()) answers: lines 130-145, and Save up
\* to its store call.
WorkerReceipt ==
  /\ \E w \in At("receipt") :
       \/ LET tx == [t EXCEPT !.error = ErrReceipt] IN
            /\ t' = ChecksThreshold(tx, threshold)
            /\ busy' = Replace(busy, w, Saving(w, tx, threshold, "rerr"))
       \/ LET tx == [t EXCEPT !.success = TRUE] IN
            /\ t' = ChecksThreshold(tx, threshold)
            /\ busy' = Replace(busy, w, Saving(w, tx, threshold, "ok"))
       \/ LET tx == [t EXCEPT !.success = FALSE, !.error = ErrFailure] IN
            /\ t' = ChecksThreshold(tx, threshold)
            /\ busy' = Replace(busy, w, Saving(w, tx, threshold, "fail"))
  /\ UNCHANGED <<sweeps, db, threshold, driver, gen, txs, next, tin, tinClosed, tout,
                 collected, idle, passes>>

\* The Updates of Save lands in the store; CheckSuccess returns, the worker
\* sends t on tout and is back at range tin.
WorkerUpdate ==
  /\ \E w \in At("update") :
       /\ db' = Updates(db, w.id, w.ut)
       /\ busy' = busy (-) SetToBag({w})
       /\ IF w.sweep = gen /\ driver # "sleep" /\ driver # "run"
          THEN /\ tout' = tout + 1
               /\ idle' = idle + 1
          ELSE UNCHANGED <<tout, idle>>
  /\ UNCHANGED <<sweeps, threshold, driver, gen, txs, next, t, tin, tinClosed,
                 collected, passes>>

\* A monitorWorker at range tin with tin closed and drained has left its
\* loop and returns; nothing else can happen to it.
Exited == IF tinClosed /\ tin = 0 THEN idle ELSE 0

Next ==
  \/ HandleNewTransaction
  \/ HandleSetReviewed
  \/ SleepDone
  \/ StartSweep
  \/ Enqueue
  \/ CloseTin
  \/ Collect
  \/ SweepReturn
  \/ WorkerRecv
  \/ WorkerQuery
  \/ WorkerReceipt
  \/ WorkerUpdate

Spec == Init /\ [][Next]_vars

\* ------------------------------------------------------------- liveness
\* The periodic driver never stops: for { sweep; time.Sleep } in worker().
\* CHECKS_THRESHOLD parses, every call to the chain and to the store comes
\* back, and the Go scheduler runs every goroutine that can run.
LiveInit ==
  /\ Init
  /\ threshold # Unparseable

SweepAgain ==
  /\ Begin
  /\ UNCHANGED sweeps

\* Mark-reviewed requests are left out of LiveSpec: no step of the engine
\* reads or writes the reviewed column (MonitoredTransactions, Save).
LiveNext ==
  \/ HandleNewTransaction
  \/ SleepDone
  \/ SweepAgain
  \/ Enqueue
  \/ CloseTin
  \/ Collect
  \/ SweepReturn
  \/ WorkerRecv
  \/ WorkerQuery
  \/ WorkerReceipt
  \/ WorkerUpdate

Fairness ==
  /\ WF_vars(SleepDone)
  /\ WF_vars(SweepAgain)
  /\ WF_vars(Enqueue)
  /\ WF_vars(CloseTin)
  /\ WF_vars(Collect)
  /\ WF_vars(SweepReturn)
  /\ WF_vars(WorkerRecv)
  /\ WF_vars(WorkerQuery)
  /\ WF_vars(WorkerReceipt)
  /\ WF_vars(WorkerUpdate)

LiveSpec == LiveInit /\ [][LiveNext]_vars /\ Fairness

\* ------------------------------------------------------ the HTTP surface alone
\* api() with the periodic driver idle: requests with any body, on a store
\* no sweep touches.  CHECKS_THRESHOLD is not read by any handler.
HttpInit ==
  /\ Init
  /\ threshold = Unparseable

HandleNewTransactionAnyBody ==
  /\ \E id \in Ids, body \in AnyRequestBodies :
       /\ db[id] = NoRow
       /\ \A j \in Ids : j < id => db[j] # NoRow
       /\ db' = New(db, id, body)
  /\ UNCHANGED <<sweeps, threshold, driver, sweepVars>>

HttpNext ==
  \/ HandleNewTransactionAnyBody
  \/ HandleSetReviewed

HttpSpec == HttpInit /\ [][HttpNext]_vars

\* ============================================================ properties
\* The coordinator has received every completion and is about to return.
AtSweepEnd == driver = "collect" /\ ~CollectMore

\* CheckSuccess calls made in the running sweep, over the hashes of S.
RECURSIVE PassesGiven(_)
PassesGiven(S) ==
  IF S = {} THEN 0
  ELSE LET i == CHOOSE j \in S : TRUE IN passes[i] + PassesGiven(S \ {i})

Abandoned(ut) ==
  /\ ut.monitoring = FALSE
  /\ ut.pending = FALSE
  /\ ut.success = FALSE
  /\ ut.error = ErrExceeded

\* C1: within one sweep no record is given more than one pass, and when the
\* coordinator has collected every completion each record of the snapshot
\* has been given exactly one pass.
C1_ExactlyOnePassEach ==
  /\ \A i \in Ids : passes[i] <= 1
  /\ AtSweepEnd => \A k \in 1..Len(txs) : passes[txs[k].id] = 1

\* C2: a pass whose t.Checks++ produced a value above CHECKS_THRESHOLD sends
\* the abandonment fields to the store, whatever the chain answered.
C2_AbandonmentPrecedence ==
  \A w \in At("update") :
    (threshold # Unparseable /\ w.inc > threshold) => Abandoned(w.ut)

\* C3: a pass that started on a record whose stored checks are below the
\* threshold (so that the abandonment of C2 cannot apply) and that saw a
\* receipt with status > 0 persists, for that record, success = true,
\* pending = false, monitoring = false, error = "" and checks one higher.
C3_SuccessPass ==
  \A w \in At("update") :
    (threshold # Unparseable /\ w.start < threshold /\ w.res = "ok") =>
      /\ w.id = w.hash
      /\ w.ut = [success |-> TRUE, pending |-> FALSE, error |-> "",
                 monitoring |-> FALSE, checks |-> w.start + 1]

\* C4: when a sweep ends the stored checks of each snapshot record are its
\* checks at the snapshot plus the passes given to it; stored checks never
\* decrease; and stored checks change only for records that were monitored
\* and unreviewed in the snapshot.
C4_ChecksCounter ==
  /\ [](AtSweepEnd =>
          \A k \in 1..Len(txs) :
            db[txs[k].id].checks = txs[k].checks + passes[txs[k].id])
  /\ [][\A i \in Ids : db'[i].checks >= db[i].checks]_vars
  /\ [][\A i \in Ids :
          (db[i] # NoRow /\ db'[i].checks # db[i].checks) =>
            \E k \in 1..Len(txs) : txs[k].id = i /\ ~txs[k].reviewed]_vars

\* C5: a record whose reviewed flag was stored as true when the sweep took
\* its snapshot is given no pass by that sweep.
C5_ReviewedNeverSwept ==
  \A k \in 1..Len(txs) : txs[k].reviewed => passes[txs[k].id] = 0

\* C6: every stored record with success = true has pending = false and
\* error = "".
C6_SuccessImplies ==
  \A i \in Ids : db[i].success => (~db[i].pending /\ db[i].error = "")

\* C7: the sweep returns only after every pass it dispatched has finished
\* and persisted: once every completion is collected, and after the return,
\* no worker is inside CheckSuccess or Save, tin is drained and as many
\* passes ran as the snapshot has records; an empty snapshot returns without
\* waiting.
C7_ReturnAfterAllPasses ==
  /\ (driver \in {"sleep", "run"} \/ AtSweepEnd) => busy = EmptyBag
  /\ AtSweepEnd =>
       /\ tin = 0
       /\ collected = Len(txs)
       /\ PassesGiven(Ids) = Len(txs)
  /\ (driver = "collect" /\ Len(txs) = 0) => ENABLED SweepReturn

C7_Witness ==
  /\ AtSweepEnd
  /\ Len(txs) = 2
  /\ \E i \in Ids : db[i].checks > 0

\* C8: sweeps never overlap: every pass in progress belongs to the sweep the
\* driver is running; a sweep starts only from the driver's loop with no
\* pass in progress; and from its sleep the driver only comes back to the
\* top of its loop.
C8_SweepsSequential ==
  /\ [](\A w \in BagToSet(busy) :
          w.sweep = gen /\ driver \in {"enqueue", "collect"})
  /\ [][gen' # gen => (driver = "run" /\ busy = EmptyBag)]_vars
  /\ [][(driver = "sleep" /\ driver' # "sleep") =>
          (driver' = "run" /\ gen' = gen)]_vars

C8_Witness == sweeps = 2 /\ busy # EmptyBag

\* C9: a pass whose client lookup fails increments t.Checks, writes nothing
\* to the store and completes; the record keeps the fields it was created
\* with and stays a candidate.
C9_ClientNotFound ==
  /\ [][((\E i \in Ids : passes'[i] = passes[i] + 1)
            /\ ~GetBlockchainClient(t.blockchain)) =>
          /\ t' = [t EXCEPT !.checks = @ + 1]
          /\ db' = db
          /\ busy' = busy
          /\ tout' = tout + 1]_vars
  /\ [](\A i \in Ids :
          (db[i] # NoRow /\ ~GetBlockchainClient(db[i].blockchain)) =>
            /\ db[i].monitoring
            /\ ~db[i].pending
            /\ ~db[i].success
            /\ db[i].error = "")

\* C10: with a parseable threshold and calls that always return, every
\* monitored record whose chain resolves eventually has monitoring = false.
C10_EventuallyTerminal ==
  \A i \in Ids :
    (db[i] # NoRow /\ db[i].monitoring
       /\ GetBlockchainClient(db[i].blockchain))
      ~> (db[i] # NoRow /\ ~db[i].monitoring)

\* C11: a failing pass stays with its record: the write of a pass that saw a
\* query or receipt error is keyed by the hash the pass asked the chain
\* about, and when the sweep ends every record of the snapshot has been
\* given a pass, whatever failed for the others.
C11_FailureConfined ==
  /\ \A w \in At("update") : w.res \in {"qerr", "rerr"} => w.id = w.hash
  /\ AtSweepEnd => \A k \in 1..Len(txs) : passes[txs[k].id] >= 1

\* C12: a pass that saw a query or receipt error, with checks not above the
\* threshold, sends to the store, for the record it asked the chain about,
\* error = the error's message, pending = false and monitoring = false; and
\* a record stored as errored is not monitored again.
C12_ErroredPass ==
  /\ [](\A w \in At("update") :
          (w.res \in {"qerr", "rerr"}
             /\ (threshold = Unparseable \/ w.inc <= threshold)) =>
            /\ w.id = w.hash
            /\ w.ut.error = (IF w.res = "qerr" THEN ErrQuery ELSE ErrReceipt)
            /\ ~w.ut.pending
            /\ ~w.ut.monitoring)
  /\ [][\A i \in Ids :
          (~db[i].monitoring /\ db[i].error \in {ErrQuery, ErrReceipt}) =>
            ~db'[i].monitoring]_vars

\* C13: a pass that saw the transaction pending, with checks not above the
\* threshold, sends to the store, for the record it asked the chain about,
\* pending = true and monitoring = true with success and error as stored;
\* and the snapshot of a sweep holds every stored pending monitored record
\* that is not reviewed, and none that is.
C13_PendingPass ==
  /\ [](\A w \in At("update") :
          (w.res = "pending"
             /\ (threshold = Unparseable \/ w.inc <= threshold)) =>
            /\ w.id = w.hash
            /\ w.ut.pending
            /\ w.ut.monitoring
            /\ w.ut.success = db[w.hash].success
            /\ w.ut.error = db[w.hash].error)
  /\ [][(driver = "run" /\ driver' = "enqueue") =>
          \A i \in Ids :
            (db[i] # NoRow /\ db[i].monitoring /\ db[i].pending) =>
              ((\E k \in 1..Len(txs') : txs'[k].id = i) <=> ~db[i].reviewed)]_vars

\* C14: every row POST /transaction created is stored with monitoring = true
\* and checks = 0, whatever the body carried (no sweep has run).
C14_CreatedMonitoringZeroChecks ==
  \A i \in Ids : db[i] # NoRow => (db[i].monitoring /\ db[i].checks = 0)

C16_UnparseableThreshold ==
  \A w \in At("update") :
    threshold = Unparseable =>
      /\ w.id = w.hash
      /\ w.ut.error # ErrExceeded
      /\ w.res = "qerr" =>
           (w.ut.error = ErrQuery /\ ~w.ut.pending /\ ~w.ut.monitoring)
      /\ w.res = "rerr" =>
           (w.ut.error = ErrReceipt /\ ~w.ut.pending /\ ~w.ut.monitoring)
      /\ w.res = "pending" => (w.ut.pending /\ w.ut.monitoring)
      /\ w.res = "ok" =>
           (w.ut.success /\ ~w.ut.pending /\ ~w.ut.monitoring)
      /\ w.res = "fail" =>
           (~w.ut.success /\ w.ut.error = ErrFailure
              /\ ~w.ut.pending /\ ~w.ut.monitoring)

\* C17: no step changes the txid or the chain name of a stored row, and a
\* reviewed flag stored as true stays true whatever pass writes after it;
\* and no sweep takes a record stored as reviewed into its snapshot.
C17_ReviewedKept ==
  /\ [][\A i \in Ids :
          db[i] # NoRow =>
            /\ db'[i].id = db[i].id
            /\ db'[i].blockchain = db[i].blockchain
            /\ db[i].reviewed => db'[i].reviewed]_vars
  /\ [][(driver = "run" /\ driver' = "enqueue") =>
          \A k \in 1..Len(txs') : ~db[txs'[k].id].reviewed]_vars

\* C18: a stored row with monitoring = false keeps monitoring = false, and
\* its checks, pending, success and error, in every later step.
C18_TerminalAbsorbing ==
  [][\A i \in Ids :
       (db[i] # NoRow /\ ~db[i].monitoring) =>
         /\ ~db'[i].monitoring
         /\ db'[i].checks = db[i].checks
         /\ db'[i].pending = db[i].pending
         /\ db'[i].success = db[i].success
         /\ db'[i].error = db[i].error]_vars

\* C19: with a parseable threshold T the stored checks of a record created
\* with checks = 0 never exceed T + 1, and a write that carries
\* checks = T + 1 carries the abandonment fields.
C19_BoundedChecks ==
  threshold # Unparseable =>
    /\ \A i \in Ids : db[i].checks <= threshold + 1
    /\ \A w \in At("update") :
         w.ut.checks = threshold + 1 => Abandoned(w.ut)

\* Calls a pass still has to get back before its completion is collected.
StepsLeft(pc) ==
  CASE pc = "query" -> 4
    [] pc = "receipt" -> 3
    [] pc = "update" -> 2

RECURSIVE BusySteps(_)
BusySteps(S) ==
  IF S = {} THEN 0
  ELSE LET w == CHOOSE v \in S : TRUE IN
         CopiesIn(w, busy) * StepsLeft(w.pc) + BusySteps(S \ {w})

\* Steps the running sweep still has to take before it can return.
SweepSteps ==
  6 * (Len(txs) - next) + 5 * tin + BusySteps(BagToSet(busy)) + tout
    + (IF driver = "enqueue" THEN 1 ELSE 0)

InSweep == driver \in {"enqueue", "collect"}

\* C20: every sweep terminates and leaves no worker behind: a send on tin or
\* tout always finds room (capacity len(txs)); every record of the snapshot
\* is at one place between the enqueue loop and the coordinator, so exactly
\* len(txs) completions are sent and received; some goroutine of the sweep
\* can always take a step, and each such step leaves fewer steps to take;
\* and when the coordinator has collected everything all 10 workers have
\* left their loop.
C20_SweepTerminates ==
  /\ [](InSweep =>
          /\ tin <= Len(txs)
          /\ tout <= Len(txs)
          /\ (Len(txs) - next) + tin + BagCardinality(busy) + tout + collected
               = Len(txs)
          /\ idle + BagCardinality(busy) = Workers
          /\ ENABLED (Enqueue \/ CloseTin \/ Collect \/ SweepReturn
                        \/ WorkerRecv \/ WorkerQuery \/ WorkerReceipt
                        \/ WorkerUpdate))
  /\ [](AtSweepEnd =>
          /\ collected = Len(txs)
          /\ tinClosed
          /\ Exited = Workers)
  /\ [][(InSweep /\ driver' # "sleep"
           /\ <<driver, next, tin, tout, collected, busy>>'
                # <<driver, next, tin, tout, collected, busy>>) =>
          SweepSteps' < SweepSteps]_vars

C20_Witness ==
  /\ AtSweepEnd
  /\ Len(txs) = NumIds
  /\ collected = NumIds
  /\ Exited = Workers
  /\ \E i \in Ids : db[i] # NoRow /\ ~GetBlockchainClient(db[i].blockchain)
=============================================================================
